---- MODULE Spec2Model ----
(***************************************************************************)
(* uob-on-time: a Timetable session (src/uob_on_time/timetable.py) driving *)
(* a browser through login, the filter form and the results table, and the *)
(* caller of example.py.  The browser and the remote site are the          *)
(* environment: every find, select and wait has the outcomes Selenium can  *)
(* give (found / NoSuchElementException, condition met / timeout).         *)
(***************************************************************************)
EXTENDS Integers, Sequences, FiniteSets, TLC

VARIABLES
    driver,     \* self.driver: "open" after construction, "quit" after quit()
    quits,      \* number of driver.quit() calls made
    url,        \* the URL the browser is at
    title,      \* state of element #tFilterTitle in the current page
    form,       \* selections of the filter form in the current page
    page,       \* rows matching ".spreadsheet tr" in the current page
    events,     \* self.events
    events0,    \* self.events as it was on entry to the method in progress
    pc,         \* position inside the Timetable method in progress
    calls,      \* driver commands issued by the method in progress
    cred,       \* the (username, password) pair passed to login
    event_trs,  \* scrape's list of selected rows
    ri,         \* scrape's position in event_trs
    wi,         \* load's position in the week chain
    hist,       \* the caller's calls on the session, with their results
    exc,        \* the exception in flight ("none" when there is none)
    absent,     \* the expected page element the method found missing
    mpc,        \* position of the caller
    n           \* number of method calls the caller has made

vars == <<driver, quits, url, title, form, page, events, events0, pc, calls,
          cred, event_trs, ri, wi, hist, exc, absent, mpc, n>>

\* ------------------------------------------------------------- bounds

MaxLogins == 3
MaxOps == 4
MaxRows == 2

\* ---------------------------------------------------- module constants

start_url == "data:,"
default_url == "https://onlinetimetables.bham.ac.uk/Timetable/current_academic_year_2/default.aspx"
login_url == "https://onlinetimetables.bham.ac.uk/Timetable/current_academic_year_2/login.aspx"
timetable_url == "https://onlinetimetables.bham.ac.uk/Timetable/current_academic_year_2/showtimetable.aspx"

\* ------------------------------------------------------------ the site

Marker == "My Timetable"
Titles == {"absent", "other", Marker}

DefaultForms ==
    { [weeks |-> w, days |-> {}, period |-> "unset", type |-> "unset"] :
        w \in { {}, {" 7"} } }
NoForm == [weeks |-> {}, days |-> {}, period |-> "none", type |-> "none"]

\* a cell's content: the tag v and the column digit, padded with blanks
Digits == <<"1", "2", "3", "4", "5", "6", "7", "8", "9">>
Raw(v, j) == IF j % 2 = 1 THEN <<" ", v, Digits[j]>> ELSE <<v, Digits[j], " ", " ">>
MkRow(v, k) == [cls |-> "", tds |-> [j \in 1..k |-> Raw(v, j)]]
HeaderRow == [cls |-> "columnTitles", tds |-> [j \in 1..8 |-> <<"H", Digits[j]>>]]
RowKinds == {HeaderRow, MkRow("a", 8), MkRow("b", 8), MkRow("a", 7), MkRow("a", 9)}
Pages == UNION { [1..k -> RowKinds] : k \in 0..MaxRows }

Credentials == {"good", "bad"}

\* ------------------------------------------------------- pure helpers

RECURSIVE LStrip(_)
LStrip(s) == IF s # <<>> /\ Head(s) = " " THEN LStrip(Tail(s)) ELSE s
RECURSIVE RStrip(_)
RStrip(s) == IF s # <<>> /\ s[Len(s)] = " " THEN RStrip(SubSeq(s, 1, Len(s) - 1)) ELSE s
\* WebElement.text: the content without leading and trailing whitespace
Text(td) == RStrip(LStrip(td))

\* variant: the selector without :not(.columnTitles)
SelectRowsWithTitles(rows) == rows

\* find_elements_by_css_selector('.spreadsheet tr:not(.columnTitles)')
RECURSIVE SelectRows(_)
SelectRows(rows) ==
    IF rows = <<>> THEN <<>>
    ELSE IF Head(rows).cls # "columnTitles"
         THEN <<Head(rows)>> \o SelectRows(Tail(rows))
         ELSE SelectRows(Tail(rows))

\* variant: an unpacking that takes the first eight of more values
UnpackAtLeast(tds) == Len(tds) >= 8

\* the eight-name tuple assignment succeeds on exactly eight values
UnpackOK(tds) == Len(tds) = 8

Event(date, activity, type, start, end, room, staff, department) ==
    [date |-> date, activity |-> activity, type |-> type, start |-> start,
     end |-> end, room |-> room, staff |-> staff, department |-> department]

\* variant: start and end passed in each other's place
RowEventEndFirst(tds) ==
    Event(Text(tds[1]), Text(tds[2]), Text(tds[3]), Text(tds[5]),
          Text(tds[4]), Text(tds[6]), Text(tds[7]), Text(tds[8]))

\* the Event scrape builds from the unpacked cells of one row
RowEvent(tds) ==
    Event(Text(tds[1]), Text(tds[2]), Text(tds[3]), Text(tds[4]),
          Text(tds[5]), Text(tds[6]), Text(tds[7]), Text(tds[8]))

Range(a, b) == [i \in 1..(b - a) |-> a + i - 1]
\* variant: the first range one short
WeekChainShort == Range(1, 5) \o Range(44, 53)
\* chain(range(1, 6), range(44, 53))
WeekChain == Range(1, 6) \o Range(44, 53)
WeekValue(i) == " " \o ToString(i)

\* ------------------------------------------------ call, return, raise

LastRes == IF hist = <<>> THEN "none" ELSE hist[Len(hist)].res
LastOp == IF hist = <<>> THEN "none" ELSE hist[Len(hist)].op

Enter(op, first) ==
    /\ pc' = first
    /\ calls' = <<>>
    /\ events0' = events
    /\ absent' = "none"
    /\ exc' = "none"
    /\ hist' = Append(hist, [op |-> op, res |-> "pending"])
    /\ n' = n + 1

Return(val) ==
    /\ pc' = "idle"
    /\ hist' = [hist EXCEPT ![Len(hist)].res = val]
    /\ exc' = "none"

Raise(e) ==
    /\ pc' = "idle"
    /\ hist' = [hist EXCEPT ![Len(hist)].res = "raise"]
    /\ exc' = e

\* find_element_by_name / select_by_* found nothing
Missing(el) ==
    /\ absent' = el
    /\ Raise("NoSuchElementException")

Init0 ==
    /\ driver = "open"
    /\ quits = 0
    /\ url = start_url
    /\ title = "absent"
    /\ form = NoForm
    /\ page = <<>>
    /\ events = <<>>
    /\ events0 = <<>>
    /\ pc = "idle"
    /\ calls = <<>>
    /\ cred = "none"
    /\ event_trs = <<>>
    /\ ri = 1
    /\ wi = 1
    /\ hist = <<>>
    /\ exc = "none"
    /\ absent = "none"
    /\ n = 0

\* ------------------------------------------------------ Timetable.login

LoginGet ==
    /\ pc = "login_get"
    /\ calls' = Append(calls, <<"get", login_url>>)
    /\ \/ /\ url' = login_url
          /\ title' = "absent"
          /\ form' = NoForm
          /\ page' = <<>>
          /\ pc' = "login_user"
          /\ UNCHANGED <<hist, exc>>
       \/ /\ Raise("WebDriverException")
          /\ UNCHANGED <<url, title, form, page>>
    /\ UNCHANGED <<driver, quits, events, events0, cred, event_trs, ri, wi,
                   absent, mpc, n>>

LoginUsername ==
    /\ pc = "login_user"
    /\ \E found \in BOOLEAN :
        IF found
        THEN /\ calls' = calls \o <<  <<"find", "tUserName">>, <<"clear", "tUserName">>,
                                      <<"send_keys", "tUserName">>  >>
             /\ pc' = "login_pass"
             /\ UNCHANGED <<hist, exc, absent>>
        ELSE /\ calls' = Append(calls, <<"find", "tUserName">>)
             /\ Missing("tUserName")
    /\ UNCHANGED <<driver, quits, url, title, form, page, events, events0, cred,
                   event_trs, ri, wi, mpc, n>>

LoginPassword ==
    /\ pc = "login_pass"
    /\ \E found \in BOOLEAN :
        IF found
        THEN /\ calls' = calls \o <<  <<"find", "tPassword">>, <<"clear", "tPassword">>,
                                      <<"send_keys", "tPassword">>  >>
             /\ pc' = "login_wait"
             /\ UNCHANGED <<hist, exc, absent>>
        ELSE /\ calls' = Append(calls, <<"find", "tPassword">>)
             /\ Missing("tPassword")
    /\ UNCHANGED <<driver, quits, url, title, form, page, events, events0, cred,
                   event_trs, ri, wi, mpc, n>>

\* variant: the wait without its except clause
LoginWaitUncaught ==
    /\ pc = "login_wait"
    /\ calls' = Append(calls, <<"wait_url", default_url>>)
    /\ \/ /\ cred = "good"
          /\ url' = default_url
          /\ Return("True")
       \/ /\ url' = url
          /\ Raise("TimeoutException")
    /\ UNCHANGED <<driver, quits, title, form, page, events, events0, cred,
                   event_trs, ri, wi, absent, mpc, n>>

\* the site lets only good credentials through; the wait ends on the URL or
\* on the timeout, and the timeout is caught
LoginWait ==
    /\ pc = "login_wait"
    /\ calls' = Append(calls, <<"wait_url", default_url>>)
    /\ \/ /\ cred = "good"
          /\ url' = default_url
          /\ Return("True")
       \/ /\ url' = url
          /\ Return("False")
    /\ UNCHANGED <<driver, quits, title, form, page, events, events0, cred,
                   event_trs, ri, wi, absent, mpc, n>>

\* ------------------------------------------------------- Timetable.load

\* the try block: the postback script, then the wait for the title marker;
\* whatever is raised inside is caught
LoadPostBack ==
    /\ pc = "load_postback"
    /\ \/ /\ calls' = Append(calls, <<"execute_script", "__doPostBack">>)
          /\ Return("False")
          /\ UNCHANGED <<title, form, absent>>
       \/ /\ url = default_url
          /\ calls' = calls \o <<  <<"execute_script", "__doPostBack">>,
                                   <<"wait_text", "tFilterTitle">>  >>
          /\ \E t \in Titles :
              /\ title' = t
              /\ IF t = Marker
                 THEN /\ form' \in DefaultForms
                      /\ pc' = "load_weeks"
                      /\ UNCHANGED <<hist, exc, absent>>
                 ELSE /\ form' = NoForm
                      /\ absent' = IF t = "absent" THEN "tFilterTitle" ELSE absent
                      /\ Return("False")
    /\ UNCHANGED <<driver, quits, url, page, events, events0, cred, event_trs,
                   ri, wi, mpc, n>>

LoadSelectAllWeeks ==
    /\ pc = "load_weeks"
    /\ \E found \in BOOLEAN, option \in BOOLEAN :
        IF ~found
        THEN /\ calls' = Append(calls, <<"find", "lbWeeks">>)
             /\ Missing("lbWeeks")
             /\ UNCHANGED <<form, wi>>
        ELSE /\ calls' = calls \o <<  <<"find", "lbWeeks">>,
                                      <<"select_by_visible_text", "lbWeeks", "*All Term Time">>  >>
             /\ IF option
                THEN /\ form' = [form EXCEPT !.weeks = @ \cup {"*All Term Time"}]
                     /\ wi' = 1
                     /\ pc' = "load_week"
                     /\ UNCHANGED <<hist, exc, absent>>
                ELSE /\ Missing("lbWeeks/*All Term Time")
                     /\ UNCHANGED <<form, wi>>
    /\ UNCHANGED <<driver, quits, url, title, page, events, events0, cred,
                   event_trs, ri, mpc, n>>

\* one turn of the loop over the week chain
LoadSelectWeek ==
    /\ pc = "load_week"
    /\ wi <= Len(WeekChain)
    /\ calls' = Append(calls, <<"select_by_value", "lbWeeks", WeekValue(WeekChain[wi])>>)
    /\ \E option \in BOOLEAN :
        IF option
        THEN /\ form' = [form EXCEPT !.weeks = @ \cup {WeekValue(WeekChain[wi])}]
             /\ wi' = wi + 1
             /\ pc' = IF wi = Len(WeekChain) THEN "load_days" ELSE "load_week"
             /\ UNCHANGED <<hist, exc, absent>>
        ELSE /\ Missing("lbWeeks/" \o WeekValue(WeekChain[wi]))
             /\ UNCHANGED <<form, wi>>
    /\ UNCHANGED <<driver, quits, url, title, page, events, events0, cred,
                   event_trs, ri, mpc, n>>

LoadSelectDays ==
    /\ pc = "load_days"
    /\ \E found \in BOOLEAN, option \in BOOLEAN :
        IF ~found
        THEN /\ calls' = Append(calls, <<"find", "lbDays">>)
             /\ Missing("lbDays")
             /\ UNCHANGED form
        ELSE /\ calls' = calls \o <<  <<"find", "lbDays">>,
                                      <<"select_by_visible_text", "lbDays", "All Week">>  >>
             /\ IF option
                THEN /\ form' = [form EXCEPT !.days = @ \cup {"All Week"}]
                     /\ pc' = "load_period"
                     /\ UNCHANGED <<hist, exc, absent>>
                ELSE /\ Missing("lbDays/All Week")
                     /\ UNCHANGED form
    /\ UNCHANGED <<driver, quits, url, title, page, events, events0, cred,
                   event_trs, ri, wi, mpc, n>>

LoadSelectPeriod ==
    /\ pc = "load_period"
    /\ \E found \in BOOLEAN, option \in BOOLEAN :
        IF ~found
        THEN /\ calls' = Append(calls, <<"find", "dlPeriod">>)
             /\ Missing("dlPeriod")
             /\ UNCHANGED form
        ELSE /\ calls' = calls \o <<  <<"find", "dlPeriod">>,
                                      <<"select_by_visible_text", "dlPeriod", "All Day (08:00 - 22:00)">>  >>
             /\ IF option
                THEN /\ form' = [form EXCEPT !.period = "All Day (08:00 - 22:00)"]
                     /\ pc' = "load_type"
                     /\ UNCHANGED <<hist, exc, absent>>
                ELSE /\ Missing("dlPeriod/All Day (08:00 - 22:00)")
                     /\ UNCHANGED form
    /\ UNCHANGED <<driver, quits, url, title, page, events, events0, cred,
                   event_trs, ri, wi, mpc, n>>

LoadSelectType ==
    /\ pc = "load_type"
    /\ \E found \in BOOLEAN, option \in BOOLEAN :
        IF ~found
        THEN /\ calls' = Append(calls, <<"find", "dlType">>)
             /\ Missing("dlType")
             /\ UNCHANGED form
        ELSE /\ calls' = calls \o <<  <<"find", "dlType">>,
                                      <<"select_by_visible_text", "dlType", "List Timetable (with calendar dates)">>  >>
             /\ IF option
                THEN /\ form' = [form EXCEPT !.type = "List Timetable (with calendar dates)"]
                     /\ pc' = "load_submit"
                     /\ UNCHANGED <<hist, exc, absent>>
                ELSE /\ Missing("dlType/List Timetable (with calendar dates)")
                     /\ UNCHANGED form
    /\ UNCHANGED <<driver, quits, url, title, page, events, events0, cred,
                   event_trs, ri, wi, mpc, n>>

LoadSubmit ==
    /\ pc = "load_submit"
    /\ \E found \in BOOLEAN :
        IF found
        THEN /\ calls' = calls \o <<  <<"find", "bGetTimetable">>, <<"click", "bGetTimetable">>  >>
             /\ pc' = "load_wait"
             /\ UNCHANGED <<hist, exc, absent>>
        ELSE /\ calls' = Append(calls, <<"find", "bGetTimetable">>)
             /\ Missing("bGetTimetable")
    /\ UNCHANGED <<driver, quits, url, title, form, page, events, events0, cred,
                   event_trs, ri, wi, mpc, n>>

\* variant: a load that reads the rows of the results page itself
LoadWaitScraping ==
    /\ pc = "load_wait"
    /\ calls' = Append(calls, <<"wait_url", timetable_url>>)
    /\ \/ /\ url' = timetable_url
          /\ title' = "absent"
          /\ form' = NoForm
          /\ page' \in Pages
          /\ events' = events \o [k \in 1..Len(page') |-> RowEvent(HeaderRow.tds)]
          /\ Return("True")
       \/ /\ Return("False")
          /\ UNCHANGED <<url, title, form, page, events>>
    /\ UNCHANGED <<driver, quits, events0, cred, event_trs, ri, wi,
                   absent, mpc, n>>

\* the wait for the results URL; the timeout is caught
LoadWait ==
    /\ pc = "load_wait"
    /\ calls' = Append(calls, <<"wait_url", timetable_url>>)
    /\ \/ /\ url' = timetable_url
          /\ title' = "absent"
          /\ form' = NoForm
          /\ page' \in Pages
          /\ Return("True")
       \/ /\ Return("False")
          /\ UNCHANGED <<url, title, form, page>>
    /\ UNCHANGED <<driver, quits, events, events0, cred, event_trs, ri, wi,
                   absent, mpc, n>>

\* ----------------------------------------------------- Timetable.scrape

\* variant: a scrape that empties the list first
ScrapeFindClearing ==
    /\ pc = "scrape_find"
    /\ calls' = Append(calls, <<"find_elements", ".spreadsheet tr:not(.columnTitles)">>)
    /\ event_trs' = SelectRows(page)
    /\ ri' = 1
    /\ pc' = "scrape_row"
    /\ events' = <<>>
    /\ UNCHANGED <<driver, quits, url, title, form, page, events0, cred,
                   wi, hist, exc, absent, mpc, n>>

ScrapeFind ==
    /\ pc = "scrape_find"
    /\ calls' = Append(calls, <<"find_elements", ".spreadsheet tr:not(.columnTitles)">>)
    /\ event_trs' = SelectRows(page)
    /\ ri' = 1
    /\ pc' = "scrape_row"
    /\ UNCHANGED <<driver, quits, url, title, form, page, events, events0, cred,
                   wi, hist, exc, absent, mpc, n>>

\* one turn of the loop over the rows: unpack the cells, append the Event
ScrapeRow ==
    /\ pc = "scrape_row"
    /\ ri <= Len(event_trs)
    /\ calls' = Append(calls, <<"find_elements", "td">>)
    /\ IF UnpackOK(event_trs[ri].tds)
       THEN /\ events' = Append(events, RowEvent(event_trs[ri].tds))
            /\ ri' = ri + 1
            /\ UNCHANGED <<pc, hist, exc>>
       ELSE /\ Raise("ValueError")
            /\ UNCHANGED <<events, ri>>
    /\ UNCHANGED <<driver, quits, url, title, form, page, events0, cred,
                   event_trs, wi, absent, mpc, n>>

ScrapeEnd ==
    /\ pc = "scrape_row"
    /\ ri > Len(event_trs)
    /\ Return("None")
    /\ UNCHANGED <<driver, quits, url, title, form, page, events, events0, calls,
                   cred, event_trs, ri, wi, absent, mpc, n>>

\* ------------------------------------------- Timetable.__exit__

Quit ==
    /\ driver' = "quit"
    /\ quits' = quits + 1

\* --------------------------------------------------- example.py: main

InBody == mpc \in {"prompt", "login", "load", "scrape"}

\* input() and getpass(), then t.login(username, password)
MainPrompt ==
    /\ mpc = "prompt"
    /\ pc = "idle"
    /\ exc = "none"
    /\ \/ /\ n < MaxLogins
          /\ \E c \in Credentials : cred' = c
          /\ Enter("login", "login_get")
          /\ mpc' = "login"
       \/ /\ exc' = "EOFError"
          /\ UNCHANGED <<pc, calls, events0, absent, hist, n, cred, mpc>>
    /\ UNCHANGED <<driver, quits, url, title, form, page, events, event_trs, ri, wi>>

\* if t.login(...): break, then t.load(); else: prompt again
MainLoginReturn ==
    /\ mpc = "login"
    /\ pc = "idle"
    /\ \/ /\ LastRes = "True"
          /\ Enter("load", "load_postback")
          /\ mpc' = "load"
       \/ /\ LastRes = "False"
          /\ mpc' = "prompt"
          /\ UNCHANGED <<pc, calls, events0, absent, exc, hist, n>>
    /\ UNCHANGED <<driver, quits, url, title, form, page, events, cred,
                   event_trs, ri, wi>>

\* variant: scrape called whatever load returned
MainLoadReturnUngated ==
    /\ mpc = "load"
    /\ pc = "idle"
    /\ LastRes \in {"True", "False"}
    /\ Enter("scrape", "scrape_find")
    /\ mpc' = "scrape"
    /\ UNCHANGED <<driver, quits, url, title, form, page, events, cred,
                   event_trs, ri, wi>>

\* if t.load(): t.scrape(); else: report the timeout
MainLoadReturn ==
    /\ mpc = "load"
    /\ pc = "idle"
    /\ \/ /\ LastRes = "True"
          /\ Enter("scrape", "scrape_find")
          /\ mpc' = "scrape"
       \/ /\ LastRes = "False"
          /\ mpc' = "leave"
          /\ UNCHANGED <<pc, calls, events0, absent, exc, hist, n>>
    /\ UNCHANGED <<driver, quits, url, title, form, page, events, cred,
                   event_trs, ri, wi>>

\* print(t), then the end of the with body
MainScrapeReturn ==
    /\ mpc = "scrape"
    /\ pc = "idle"
    /\ LastRes = "None"
    /\ mpc' = "leave"
    /\ UNCHANGED <<driver, quits, url, title, form, page, events, events0, pc,
                   calls, cred, event_trs, ri, wi, hist, exc, absent, n>>

\* variant: the driver closed at the end of the body only
MainExitNoFinally ==
    /\ \/ mpc = "leave"
       \/ InBody /\ pc = "idle" /\ exc # "none"
    /\ IF exc = "none" THEN Quit ELSE UNCHANGED <<driver, quits>>
    /\ mpc' = IF exc = "none" THEN "finished" ELSE "crashed"
    /\ UNCHANGED <<url, title, form, page, events, events0, pc, calls, cred,
                   event_trs, ri, wi, hist, exc, absent, n>>

\* leaving the with statement, at the end of its body or on an exception
\* in it: __exit__ runs, and the exception goes on
MainExit ==
    /\ \/ mpc = "leave"
       \/ InBody /\ pc = "idle" /\ exc # "none"
    /\ Quit
    /\ mpc' = IF exc = "none" THEN "finished" ELSE "crashed"
    /\ UNCHANGED <<url, title, form, page, events, events0, pc, calls, cred,
                   event_trs, ri, wi, hist, exc, absent, n>>

Init == Init0 /\ mpc = "prompt"

Next ==
    \/ LoginGet \/ LoginUsername \/ LoginPassword \/ LoginWait
    \/ LoadPostBack \/ LoadSelectAllWeeks \/ LoadSelectWeek \/ LoadSelectDays
    \/ LoadSelectPeriod \/ LoadSelectType \/ LoadSubmit \/ LoadWait
    \/ ScrapeFind \/ ScrapeRow \/ ScrapeEnd
    \/ MainPrompt \/ MainLoginReturn \/ MainLoadReturn \/ MainScrapeReturn
    \/ MainExit

Spec == Init /\ [][Next]_vars

\* ------------------------------- any caller holding a session in scope

CallLogin ==
    /\ mpc = "client"
    /\ pc = "idle"
    /\ n < MaxOps
    /\ \E c \in Credentials : cred' = c
    /\ Enter("login", "login_get")
    /\ UNCHANGED <<driver, quits, url, title, form, page, events, event_trs,
                   ri, wi, mpc>>

CallLoad ==
    /\ mpc = "client"
    /\ pc = "idle"
    /\ n < MaxOps
    /\ Enter("load", "load_postback")
    /\ UNCHANGED <<driver, quits, url, title, form, page, events, cred,
                   event_trs, ri, wi, mpc>>

CallScrape ==
    /\ mpc = "client"
    /\ pc = "idle"
    /\ n < MaxOps
    /\ Enter("scrape", "scrape_find")
    /\ UNCHANGED <<driver, quits, url, title, form, page, events, cred,
                   event_trs, ri, wi, mpc>>

Close ==
    /\ mpc = "client"
    /\ pc = "idle"
    /\ Quit
    /\ mpc' = "closed"
    /\ UNCHANGED <<url, title, form, page, events, events0, pc, calls, cred,
                   event_trs, ri, wi, hist, exc, absent, n>>

SessionInit == Init0 /\ mpc = "client"

SessionNext ==
    \/ LoginGet \/ LoginUsername \/ LoginPassword \/ LoginWait
    \/ LoadPostBack \/ LoadSelectAllWeeks \/ LoadSelectWeek \/ LoadSelectDays
    \/ LoadSelectPeriod \/ LoadSelectType \/ LoadSubmit \/ LoadWait
    \/ ScrapeFind \/ ScrapeRow \/ ScrapeEnd
    \/ CallLogin \/ CallLoad \/ CallScrape \/ Close

SessionSpec == SessionInit /\ [][SessionNext]_vars

\* =========================================================== properties

OutOfScope == mpc \in {"finished", "crashed"}

\* the rows of the page that are not title rows, counted on the page itself
DataIdx == {i \in DOMAIN page : page[i].cls # "columnTitles"}
NumDataRows == Cardinality(DataIdx)
\* the position in the page of its k-th row that is not a title row
NthData(k) == CHOOSE i \in DataIdx : Cardinality({j \in DataIdx : j <= i}) = k
\* the data rows in front of the first one that has not eight cells
BadIdx == {i \in DataIdx : Len(page[i].tds) # 8}
GoodPrefix == Cardinality({i \in DataIdx : \A b \in BadIdx : i < b})

\* a record holding the trimmed content of the eight cells, left to right
CellsInOrder(e, tds) ==
    /\ Len(tds) = 8
    /\ e.date = Text(tds[1])
    /\ e.activity = Text(tds[2])
    /\ e.type = Text(tds[3])
    /\ e.start = Text(tds[4])
    /\ e.end = Text(tds[5])
    /\ e.room = Text(tds[6])
    /\ e.staff = Text(tds[7])
    /\ e.department = Text(tds[8])
Trimmed(f) == f = <<>> \/ (Head(f) # " " /\ f[Len(f)] # " ")

\* C1: in a run of main the driver is quit exactly once on every way out of
\* the with statement (never before, never twice, never not at all), and no
\* driver command is issued after the quit.
C1_ReleasedExactlyOnce ==
    /\ [](/\ quits <= 1
          /\ OutOfScope <=> quits = 1
          /\ OutOfScope <=> driver = "quit"
          /\ driver = "quit" => pc = "idle")
    /\ [][driver = "quit" => calls' = calls /\ driver' = "quit"]_vars

\* a scrape raised on a malformed row, and the driver was quit on the way out
C1_Witness ==
    mpc = "crashed" /\ exc = "ValueError" /\ quits = 1 /\ driver = "quit"

\* the stage the caller's calls have reached: the rank of the last call
\* that succeeded
Rank(e) ==
    IF e.op = "login" /\ e.res = "True" THEN 1
    ELSE IF e.op = "load" /\ e.res = "True" THEN 2
    ELSE IF e.op = "scrape" /\ e.res = "None" THEN 3
    ELSE 0
Succeeded(h) == {i \in DOMAIN h : Rank(h[i]) > 0}
StageOf(h) ==
    IF Succeeded(h) = {} THEN 0
    ELSE Rank(h[CHOOSE i \in Succeeded(h) : \A j \in Succeeded(h) : j <= i])

\* C2: in main the stage only moves forward; load is called only after a
\* login returned True, scrape only after load returned True, and no
\* operation of an earlier stage is called once a stage is reached.
C2_StagesGated ==
    /\ [](\A i \in DOMAIN hist :
            /\ hist[i].op = "load" =>
                 \E j \in 1..(i - 1) : hist[j].op = "login" /\ hist[j].res = "True"
            /\ hist[i].op = "scrape" =>
                 \E j \in 1..(i - 1) : hist[j].op = "load" /\ hist[j].res = "True"
            /\ \A j \in 1..(i - 1) :
                 /\ Rank(hist[j]) = 1 => hist[i].op # "login"
                 /\ Rank(hist[j]) = 2 => hist[i].op \notin {"login", "load"}
                 /\ hist[j].op = "scrape" => hist[i].op \notin {"login", "load"})
    /\ [][StageOf(hist') >= StageOf(hist)]_vars

\* a failed login, then all three stages passed
C2_Witness ==
    /\ Len(hist) >= 4
    /\ hist[1].res = "False"
    /\ LastOp = "scrape"
    /\ LastRes = "None"
    /\ StageOf(hist) = 3

\* C3: a scrape of main that completes has produced as many records as the
\* results page has rows that are not title rows; with no such row the
\* sequence is empty and nothing is raised.
C3_RecordCount ==
    (LastOp = "scrape" /\ LastRes = "None") =>
        /\ Len(events) = NumDataRows
        /\ NumDataRows = 0 => events = <<>>
        /\ exc = "none"

\* a completed scrape of a page with a title row and one data row
C3_Witness ==
    /\ LastOp = "scrape"
    /\ LastRes = "None"
    /\ Len(page) = 2
    /\ NumDataRows = 1
    /\ Len(events) = 1

\* C4: the records a scrape has appended are, in the order of the rows on the
\* page, the trimmed contents of each row's eight cells from left to right.
C4_FieldsInOrder ==
    (LastOp = "scrape" /\ pc # "scrape_find") =>
        /\ Len(events) = Len(events0) + ri - 1
        /\ ri - 1 <= NumDataRows
        /\ \A k \in 1..(ri - 1) :
             /\ CellsInOrder(events[Len(events0) + k], page[NthData(k)].tds)
             /\ \A f \in {"date", "activity", "type", "start", "end", "room",
                          "staff", "department"} :
                  Trimmed(events[Len(events0) + k][f])

\* a completed scrape of two different rows
C4_Witness ==
    /\ LastOp = "scrape"
    /\ LastRes = "None"
    /\ Len(events) = 2
    /\ events[1] # events[2]
    /\ events[1].start # events[1].end

\* C5: when a data row has not exactly eight cells the scrape of main raises
\* at that row and appends nothing for it; every record in the sequence is
\* the content of an eight-cell data row.
C5_MalformedRowRaises ==
    /\ (LastOp = "scrape" /\ pc = "idle" /\ BadIdx # {}) =>
         /\ LastRes = "raise"
         /\ exc = "ValueError"
         /\ Len(events) = GoodPrefix
    /\ \A k \in DOMAIN events :
         \E i \in DataIdx : CellsInOrder(events[k], page[i].tds)

\* a scrape that raised on the row after a well-formed one
C5_Witness ==
    /\ LastOp = "scrape"
    /\ LastRes = "raise"
    /\ exc = "ValueError"
    /\ Len(events) = 1
    /\ BadIdx # {}

\* C6: a login whose wait does not reach the post-login URL (wrong
\* credentials never reach it) returns False and raises nothing; the driver
\* is still open, the events are untouched and the caller is back at the
\* prompt, from where a later login can succeed.
C6_FailedLoginReturnsFalse ==
    /\ [][(pc = "login_wait" /\ (cred = "bad" \/ url' # default_url)) =>
            /\ pc' = "idle"
            /\ LastRes' = "False"
            /\ exc' = "none"
            /\ url' # default_url
            /\ driver' = "open"
            /\ events' = events]_vars
    /\ []((LastOp = "login" /\ LastRes = "False") =>
            /\ events = events0
            /\ exc \in {"none", "EOFError"}
            /\ mpc \in {"login", "prompt"} => driver = "open")
    /\ [][(mpc = "login" /\ pc = "idle" /\ LastRes = "False") =>
            mpc' = "prompt"]_vars

\* two failed logins, then a login that returned True
C6_Witness ==
    /\ Len(hist) = 3
    /\ hist[1] = [op |-> "login", res |-> "False"]
    /\ hist[2] = [op |-> "login", res |-> "False"]
    /\ hist[3] = [op |-> "login", res |-> "True"]
    /\ driver = "open"

LoadPcs == {"load_postback", "load_weeks", "load_week", "load_days",
            "load_period", "load_type", "load_submit", "load_wait"}

C8_MissingElementRaises ==
    (pc = "idle" /\ absent # "none") => (LastRes = "raise" /\ exc # "none")

\* the driver commands of a load up to and including the click on submit
SubmitCalls ==
    << <<"execute_script", "__doPostBack">>,
       <<"wait_text", "tFilterTitle">>,
       <<"find", "lbWeeks">>,
       <<"select_by_visible_text", "lbWeeks", "*All Term Time">>,
       <<"select_by_value", "lbWeeks", " 1">>,
       <<"select_by_value", "lbWeeks", " 2">>,
       <<"select_by_value", "lbWeeks", " 3">>,
       <<"select_by_value", "lbWeeks", " 4">>,
       <<"select_by_value", "lbWeeks", " 5">>,
       <<"select_by_value", "lbWeeks", " 44">>,
       <<"select_by_value", "lbWeeks", " 45">>,
       <<"select_by_value", "lbWeeks", " 46">>,
       <<"select_by_value", "lbWeeks", " 47">>,
       <<"select_by_value", "lbWeeks", " 48">>,
       <<"select_by_value", "lbWeeks", " 49">>,
       <<"select_by_value", "lbWeeks", " 50">>,
       <<"select_by_value", "lbWeeks", " 51">>,
       <<"select_by_value", "lbWeeks", " 52">>,
       <<"find", "lbDays">>,
       <<"select_by_visible_text", "lbDays", "All Week">>,
       <<"find", "dlPeriod">>,
       <<"select_by_visible_text", "dlPeriod", "All Day (08:00 - 22:00)">>,
       <<"find", "dlType">>,
       <<"select_by_visible_text", "dlType", "List Timetable (with calendar dates)">>,
       <<"find", "bGetTimetable">>,
       <<"click", "bGetTimetable">> >>
SelectedWeeks ==
    {"*All Term Time", " 1", " 2", " 3", " 4", " 5", " 44", " 45", " 46",
     " 47", " 48", " 49", " 50", " 51", " 52"}
IsPrefix(a, b) == Len(a) <= Len(b) /\ SubSeq(b, 1, Len(a)) = a

\* C9: a load past the marker wait selects '*All Term Time' and then each of
\* the weeks 1..5 and 44..52 once, in that order and no other week, then the
\* day, period and type options, and clicks submit only after all of them;
\* the selecting steps only add to what is selected in the list boxes.
C9_DoubleWeekSelection ==
    /\ [](LastOp = "load" /\ LastRes # "False" =>
            (IsPrefix(calls, SubmitCalls) \/ IsPrefix(SubmitCalls, calls)))
    /\ [](\A k \in DOMAIN calls :
            calls[k] = <<"click", "bGetTimetable">> =>
                SubSeq(calls, 1, k) = SubmitCalls)
    /\ [](pc = "load_wait" =>
            /\ SelectedWeeks \subseteq form.weeks
            /\ "All Week" \in form.days
            /\ form.period = "All Day (08:00 - 22:00)"
            /\ form.type = "List Timetable (with calendar dates)")
    /\ [][(pc \in LoadPcs \ {"load_postback", "load_wait"}) =>
            /\ form.weeks \subseteq form'.weeks
            /\ form.days \subseteq form'.days
            /\ (form'.weeks \ form.weeks) \subseteq SelectedWeeks]_vars

\* submit clicked on a form whose preselected week 7 is still selected
C9_Witness ==
    /\ pc = "load_wait"
    /\ calls = SubmitCalls
    /\ form.weeks = SelectedWeeks \cup {" 7"}

ScrapePcs == {"scrape_find", "scrape_row"}
Scrapes(h) == {i \in DOMAIN h : h[i].op = "scrape"}

\* C10: the events only grow at the end: every step keeps the records
\* already there in place, only the row step of scrape appends, login and
\* load change nothing; each completed scrape adds one record per data row
\* (k scrapes of one n-row page leave k*n records), and a scrape that raises
\* leaves the records of the rows before the malformed one.
C10_EventsAppendOnly ==
    /\ [][IsPrefix(events, events')]_vars
    /\ [][events' # events => (pc = "scrape_row" /\ Len(events') = Len(events) + 1)]_vars
    /\ []((LastOp = "scrape" /\ LastRes = "None") =>
            Len(events) = Len(events0) + NumDataRows)
    /\ []((LastOp = "scrape" /\ LastRes = "raise") =>
            /\ IsPrefix(events0, events)
            /\ Len(events) = Len(events0) + GoodPrefix)
    /\ []((/\ Scrapes(hist) # {}
           /\ \A i \in Scrapes(hist) : hist[i].res = "None"
           /\ \A i \in Scrapes(hist), j \in DOMAIN hist : j > i => j \in Scrapes(hist))
          => Len(events) = Cardinality(Scrapes(hist)) * NumDataRows)

\* two completed scrapes of one page of two data rows
C10_Witness ==
    /\ Cardinality(Scrapes(hist)) = 2
    /\ LastRes = "None"
    /\ NumDataRows = 2
    /\ Len(events) = 4
    /\ events[1] = events[3]

====
